---------------------------- MODULE Spec2Model ----------------------------
(***************************************************************************)
(* Verification model of sw/sintable.cpp (CORDIC project): the two table   *)
(* based sinewave generators sintable() and quarterwav(), and the clocked  *)
(* Verilog modules whose text they emit.                                   *)
(*                                                                         *)
(*  - Spec       : one generation call, small tables (entries evaluated)   *)
(*  - SpecLimits : one generation call, phase widths around the limits     *)
(*  - SpecHW     : the emitted direct / quarter-wave module, clock by clock*)
(***************************************************************************)
EXTENDS Integers, Sequences, FiniteSets, TLC

\* ------------------------------------------------------------------------
\* Bounds of the model
\* ------------------------------------------------------------------------
GenMaxLg == 5

GenMaxOw == 8

LimMaxLg == 27

HwMaxPW == 3

HwMaxOW == 3

\* ------------------------------------------------------------------------
\* Program constants
\* ------------------------------------------------------------------------
DirectLimit == 24

QuarterLimit == 26

QuarterMin == 2

VARIABLES
    \* configuration of the generation call (the arguments of both functions)
    strategy, lgtable, ow, with_reset, with_aux, async_reset,
    \* the generation call
    pc, out, err, heap, filled, hex, status,
    \* the emitted module: memories, inputs as last sampled, registers, and
    \* the samples the register stages hold
    tbl, quartertable,
    i_ce, i_reset, i_areset_n,
    negate, index, tblvalue, o_val, aux, o_aux,
    hist

cfgvars == <<strategy, lgtable, ow, with_reset, with_aux, async_reset>>

genvars == <<pc, out, err, heap, filled, hex, status>>

hwvars == <<tbl, quartertable, i_ce, i_reset, i_areset_n, negate, index,
            tblvalue, o_val, aux, o_aux, hist>>

vars == <<cfgvars, genvars, hwvars>>

\* ------------------------------------------------------------------------
\* Arithmetic helpers
\* ------------------------------------------------------------------------
RECURSIVE Pow2(_)
\* 1 << n
Pow2(n) == IF n <= 0 THEN 1 ELSE 2 * Pow2(n - 1)

\* a conversion that rounds to the nearest integer
TruncRound(a, b) ==
    IF a >= 0 THEN (2 * a + b) \div (2 * b) ELSE -((2 * (-a) + b) \div (2 * b))

\* conversion of a double to long: truncation toward zero of a / b (b > 0)
Trunc(a, b) == IF a >= 0 THEN a \div b ELSE -((-a) \div b)

\* sin() of libm at the 128 phases 2*pi*m/128, as a fixed-point number with
\* 20 fractional bits (the double result, scaled by 2^20, truncated).
\* sin(M_PI) = 1.2e-16 and its like are 0 at this scale.
SinTab == <<
           0,    51451,   102778,   153858,   204567,   254783,   304385,   353254,
      401272,   448324,   494295,   539075,   582557,   624635,   665209,   704180,
      741455,   776943,   810560,   842224,   871859,   899393,   924761,   947901,
      968757,   987280,  1003424,  1017151,  1028427,  1037226,  1043526,  1047312,
     1048576,  1047312,  1043526,  1037226,  1028427,  1017151,  1003424,   987280,
      968757,   947901,   924761,   899393,   871859,   842224,   810560,   776943,
      741455,   704180,   665209,   624635,   582557,   539075,   494295,   448324,
      401272,   353254,   304385,   254783,   204567,   153858,   102778,    51451,
           0,   -51451,  -102778,  -153858,  -204567,  -254783,  -304385,  -353254,
     -401272,  -448324,  -494295,  -539075,  -582557,  -624635,  -665209,  -704180,
     -741455,  -776943,  -810560,  -842224,  -871859,  -899393,  -924761,  -947901,
     -968757,  -987280, -1003424, -1017151, -1028427, -1037226, -1043526, -1047312,
    -1048576, -1047312, -1043526, -1037226, -1028427, -1017151, -1003424,  -987280,
     -968757,  -947901,  -924761,  -899393,  -871859,  -842224,  -810560,  -776943,
     -741455,  -704180,  -665209,  -624635,  -582557,  -539075,  -494295,  -448324,
     -401272,  -353254,  -304385,  -254783,  -204567,  -153858,  -102778,   -51451 >>

\* the fixed-point one: sin = SinTab / SinOne
SinOne == SinTab[Len(SinTab) \div 4 + 1]

\* sin(ph), ph given in units of 2*pi/Len(SinTab)
Sin(ph) == SinTab[(ph % Len(SinTab)) + 1]

\* long maxv = (1l<<(ow-1))-1l;
MaxV(w) == Pow2(w - 1) - 1

\* ------------------------------------------------------------------------
\* Table builder
\* ------------------------------------------------------------------------
\* sintable: ph = 2.0 * M_PI * (double)k / (double)tbl_entries;
DirectPhase(k, entries) == (k * Len(SinTab)) \div entries

\* a phase that forgets the half-bin offset
QuarterPhaseNoOffset(k, entries) == (k * Len(SinTab)) \div entries

\* quarterwav: ph = 2.0 * M_PI * (double)k / (double)tbl_entries;
\*             ph+=       M_PI             / (double)tbl_entries;
QuarterPhase(k, entries) ==
    (k * Len(SinTab)) \div entries + (Len(SinTab) \div 2) \div entries

\* a bug that scales by 1 << (ow-1) instead of maxv
DirectEntryFullScale(k, lg, w) ==
    Trunc(Pow2(w - 1) * Sin(DirectPhase(k, Pow2(lg))), SinOne)

\* tbldata[k]  = (long)maxv * sin(ph);
DirectEntry(k, lg, w) ==
    Trunc(MaxV(w) * Sin(DirectPhase(k, Pow2(lg))), SinOne)

\* tbldata[k] = maxv * sin(ph);
QuarterEntry(k, lg, w) ==
    Trunc(MaxV(w) * Sin(QuarterPhase(k, Pow2(lg))), SinOne)

\* int tbl_entries = (1<<lgtable);
tbl_entries == Pow2(lgtable)

\* the entries of tbldata the loop has written
tbldata ==
    [k \in 0..(filled - 1) |->
        IF strategy = "direct" THEN DirectEntry(k, lgtable, ow)
                               ELSE QuarterEntry(k, lgtable, ow)]

\* ------------------------------------------------------------------------
\* External collaborators (hexfile.h, legal.h)
\* ------------------------------------------------------------------------
\* legal(fp, fname, PROJECT, PURPOSE): the header block written to fp
legal(fp) == Append(fp, <<"legal">>)

\* hextable(fname, lgtable, ow, data): persists the first 1<<lgtable entries
\* of data as ow-bit words
hextable(lg, w) == [len |-> Pow2(lg), width |-> w]

\* an ow-bit two's complement word of the table file
HexWord(v, w) == v % Pow2(w)

\* ------------------------------------------------------------------------
\* Emitted text
\* ------------------------------------------------------------------------
\* a reset word that ignores with_reset
resetwAlways ==
    IF async_reset THEN <<"i_areset_n">> ELSE <<"i_reset">>

\* std::string resetw (sintable; without the trailing ", ")
resetw ==
    IF ~with_reset THEN <<>>
    ELSE IF async_reset THEN <<"i_areset_n">> ELSE <<"i_reset">>

\* always_reset: the sensitivity list and the reset condition
always_reset ==
    IF with_reset /\ async_reset
        THEN <<"posedge i_clk, negedge i_areset_n", "!i_areset_n">>
    ELSE IF with_reset THEN <<"posedge i_clk", "i_reset">>
    ELSE <<"posedge i_clk", "">>

\* module %s(i_clk, %si_ce, %si_phase, o_val%s);
DirectPorts ==
    <<"i_clk">> \o resetw \o <<"i_ce">>
        \o (IF with_aux THEN <<"i_aux">> ELSE <<>>)
        \o <<"i_phase", "o_val">>
        \o (IF with_aux THEN <<"o_aux">> ELSE <<>>)

\* the input / output declarations of the direct module
DirectDecls ==
    <<"i_clk">> \o resetw \o <<"i_ce", "i_phase", "o_val">>
        \o (IF with_aux THEN <<"i_aux", "o_aux">> ELSE <<>>)

\* module %s(i_clk, %s%si_ce, i_phase, %so_val%s);
QuarterPorts ==
    <<"i_clk">> \o resetw \o <<"i_ce", "i_phase">>
        \o (IF with_aux THEN <<"i_aux">> ELSE <<>>)
        \o <<"o_val">>
        \o (IF with_aux THEN <<"o_aux">> ELSE <<>>)

\* the input / output declarations of the quarter-wave module
QuarterDecls ==
    <<"i_clk">> \o resetw \o <<"i_ce", "i_phase", "o_val">>
        \o (IF with_aux THEN <<"i_aux", "o_aux">> ELSE <<>>)

\* the module text of sintable, in the order it is written
DirectText ==
    << <<"default_nettype">>,
       <<"module", DirectPorts>>,
       <<"parameter", lgtable, ow>>,
       <<"decl", DirectDecls>>,
       <<"memory", "tbl", lgtable>>,
       <<"always", always_reset, "o_val">> >>
    \o (IF with_aux THEN << <<"always", always_reset, "o_aux">> >> ELSE <<>>)
    \o << <<"endmodule">> >>

\* the module text of quarterwav, in the order it is written
QuarterText ==
    << <<"module", QuarterPorts>>,
       <<"parameter", lgtable, ow>>,
       <<"decl", QuarterDecls>>,
       <<"memory", "quartertable", lgtable - 2>>,
       <<"always", always_reset, "negate,index,tblvalue,o_val">> >>
    \o (IF with_aux THEN << <<"always", always_reset, "o_aux,aux">> >> ELSE <<>>)
    \o << <<"endmodule">> >>

\* depth of the memory the emitted text declares: [0:((1<<PW)-1)] with
\* PW = lgtable for tbl, [0:((1<<(PW-2))-1)] for quartertable
DeclaredDepth ==
    LET m == SelectSeq(out, LAMBDA c : c[1] = "memory")
    IN  IF m = <<>> THEN 0 ELSE Pow2(m[1][3])

\* ------------------------------------------------------------------------
\* The generation call
\* ------------------------------------------------------------------------
\* a size check with the limit off by one
DirectTooBigOffByOne(lg) == lg > DirectLimit

\* if (lgtable >= 24) in sintable
DirectTooBig(lg) == lg >= DirectLimit

\* if (lgtable >= 26) in quarterwav
QuarterTooBig(lg) == lg >= QuarterLimit

\* assert(lgtable>2);
QuarterAssert(lg) == lg > QuarterMin

\* a sintable that writes its header before it checks the size
SintableCheckLate ==
    /\ pc = "start" /\ strategy = "direct"
    /\ out' = legal(out)
    /\ IF DirectTooBig(lgtable)
          THEN /\ err' = Append(err, "ERR: Requested table size is greater than 16M")
               /\ status' = "EXIT_FAILURE"
               /\ pc' = "exit"
          ELSE /\ pc' = "emit"
               /\ UNCHANGED <<err, status>>
    /\ UNCHANGED <<cfgvars, heap, filled, hex, hwvars>>

\* sintable, the size check: fprintf(stderr, ...); exit(EXIT_FAILURE);
SintableCheck ==
    /\ pc = "start" /\ strategy = "direct"
    /\ IF DirectTooBig(lgtable)
          THEN /\ err' = Append(err, "ERR: Requested table size is greater than 16M")
               /\ status' = "EXIT_FAILURE"
               /\ pc' = "exit"
          ELSE /\ pc' = "emit"
               /\ UNCHANGED <<err, status>>
    /\ UNCHANGED <<cfgvars, out, heap, filled, hex, hwvars>>

\* quarterwav, the assertion and the size check
QuarterwavCheck ==
    /\ pc = "start" /\ strategy = "quarter"
    /\ IF ~QuarterAssert(lgtable)
          THEN /\ err' = Append(err, "Assertion `lgtable>2' failed")
               /\ status' = "SIGABRT"
               /\ pc' = "abort"
          ELSE IF QuarterTooBig(lgtable)
          THEN /\ err' = Append(err, "ERR: Requested table size is greater than 16M")
               /\ status' = "EXIT_FAILURE"
               /\ pc' = "exit"
          ELSE /\ pc' = "emit"
               /\ UNCHANGED <<err, status>>
    /\ UNCHANGED <<cfgvars, out, heap, filled, hex, hwvars>>

\* sintable: legal(...), then every fprintf(fp, ...) up to "endmodule"
SintableEmit ==
    /\ pc = "emit" /\ strategy = "direct"
    /\ out' = legal(out) \o DirectText
    /\ pc' = "alloc"
    /\ UNCHANGED <<cfgvars, err, heap, filled, hex, status, hwvars>>

\* quarterwav: legal(...), then every fprintf(fp, ...) up to "endmodule"
QuarterwavEmit ==
    /\ pc = "emit" /\ strategy = "quarter"
    /\ out' = legal(out) \o QuarterText
    /\ pc' = "alloc"
    /\ UNCHANGED <<cfgvars, err, heap, filled, hex, status, hwvars>>

\* tbldata = new long[(1<<lgtable)];  (both functions)
Alloc ==
    /\ pc = "alloc"
    /\ heap' = Append(heap, <<"new", Pow2(lgtable)>>)
    /\ pc' = "build"
    /\ UNCHANGED <<cfgvars, out, err, filled, hex, status, hwvars>>

\* a quarterwav loop that fills the whole period
QuarterLoopBoundFull == tbl_entries

\* for(int k=0; k<tbl_entries/4; k++)
QuarterLoopBound == tbl_entries \div 4

\* the table loop of either function, run to its end
Build ==
    /\ pc = "build"
    /\ filled' = IF strategy = "direct" THEN tbl_entries ELSE QuarterLoopBound
    /\ pc' = "persist"
    /\ UNCHANGED <<cfgvars, out, err, heap, hex, status, hwvars>>

\* a quarterwav that persists the whole period
QuarterHexLgFull == lgtable

\* hextable(fname, lgtable-2, ow, tbldata);
QuarterHexLg == lgtable - 2

\* hextable(fname, lgtable, ow, tbldata);
DirectHexLg == lgtable

\* the call of hextable
Persist ==
    /\ pc = "persist"
    /\ hex' = Append(hex, hextable(IF strategy = "direct" THEN DirectHexLg
                                                          ELSE QuarterHexLg, ow))
    /\ pc' = "free"
    /\ UNCHANGED <<cfgvars, out, err, heap, filled, status, hwvars>>

\* delete[] tbldata; and the return
Free ==
    /\ pc = "free"
    /\ heap' = Append(heap, <<"delete">>)
    /\ status' = "returned"
    /\ pc' = "done"
    /\ UNCHANGED <<cfgvars, out, err, filled, hex, hwvars>>

\* the module is not clocked while it is being generated
HwIdle ==
    /\ i_ce = FALSE /\ i_reset = FALSE /\ i_areset_n = TRUE
    /\ negate = [i \in 0..1 |-> FALSE] /\ index = 0 /\ tblvalue = 0
    /\ o_val = 0 /\ aux = [i \in 0..1 |-> FALSE] /\ o_aux = FALSE
    /\ tbl = <<>> /\ quartertable = <<>> /\ hist = <<>>

GenStart ==
    /\ pc = "start" /\ out = <<>> /\ err = <<>> /\ heap = <<>>
    /\ filled = 0 /\ hex = <<>> /\ status = "running"

Init ==
    /\ strategy \in {"direct", "quarter"}
    /\ lgtable \in 0..GenMaxLg
    /\ ow \in 1..GenMaxOw
    /\ with_reset \in BOOLEAN /\ with_aux \in BOOLEAN /\ async_reset \in BOOLEAN
    /\ GenStart /\ HwIdle

InitLimits ==
    /\ strategy \in {"direct", "quarter"}
    /\ lgtable \in 0..LimMaxLg
    /\ ow \in {1, GenMaxOw}
    /\ with_reset \in BOOLEAN /\ with_aux \in BOOLEAN /\ async_reset \in BOOLEAN
    /\ GenStart /\ HwIdle

Next ==
    \/ SintableCheck
    \/ QuarterwavCheck
    \/ SintableEmit
    \/ QuarterwavEmit
    \/ Alloc
    \/ Build
    \/ Persist
    \/ Free

Spec == Init /\ [][Next]_vars

SpecLimits == InitLimits /\ [][Next]_vars


\* ------------------------------------------------------------------------
\* The emitted modules
\* ------------------------------------------------------------------------
\* parameter PW = lgtable, OW = ow
PW == lgtable

OW == ow

\* reg [(OW-1):0] tbl [0:((1<<PW)-1)];  initial $readmemh("%s.hex", tbl);
DirectMemory ==
    [k \in 0..(Pow2(PW) - 1) |-> HexWord(DirectEntry(k, PW, OW), OW)]

\* reg [(OW-1):0] quartertable [0:((1<<(PW-2))-1)];  initial $readmemh(...);
QuarterMemory ==
    [j \in 0..(Pow2(PW - 2) - 1) |-> HexWord(QuarterEntry(j, PW, OW), OW)]

\* a sign taken from the quadrant bit
HalfFlagQuad(ph) == (ph \div Pow2(PW - 2)) % 2 = 1

\* i_phase[(PW-1)]
HalfFlag(ph) == (ph \div Pow2(PW - 1)) % 2 = 1

\* i_phase[(PW-2)]
QuadFlag(ph) == (ph \div Pow2(PW - 2)) % 2 = 1

\* i_phase[(PW-3):0]
SubIndex(ph) == ph % Pow2(PW - 2)

\* a fold that never complements the index
FoldNoComplement(ph) == SubIndex(ph)

\* if (i_phase[(PW-2)]) index <= ~i_phase[(PW-3):0];
\* else                 index <=  i_phase[(PW-3):0];
Fold(ph) ==
    IF QuadFlag(ph) THEN Pow2(PW - 2) - 1 - SubIndex(ph) ELSE SubIndex(ph)

\* a sign stage that complements the bits instead of negating
ApplyOnesComplement(neg, tv) == IF neg THEN Pow2(OW) - 1 - tv ELSE tv

\* if (negate[1]) o_val <= -tblvalue; else o_val <= tblvalue;   (OW bits)
Apply(neg, tv) == IF neg THEN (Pow2(OW) - tv) % Pow2(OW) ELSE tv

\* an index that is off by one entry
DirectIndexNext(ph) == (ph + 1) % Pow2(PW)

\* o_val <= tbl[i_phase];
DirectIndex(ph) == ph

\* the value of an OW-bit register as a two's complement number
Signed(v) == IF v >= Pow2(OW - 1) THEN v - Pow2(OW) ELSE v

Zero2 == [i \in 0..1 |-> FALSE]

\* values the inputs can take at a clock edge
Phases == 0..(Pow2(PW) - 1)

AuxInputs == IF with_aux THEN BOOLEAN ELSE {FALSE}

ResetInputs == IF with_reset /\ ~async_reset THEN BOOLEAN ELSE {FALSE}

\* the reset condition of always_reset at a clock edge that samples i_reset
ResetTaken(rst) ==
    with_reset /\ IF async_reset THEN ~i_areset_n ELSE rst

\* hist: what each register stage holds, the newest first stage last: the
\* (i_phase, i_aux) sampled at an enabled edge, or Unknown for the content a
\* stage had before any edge.  A reset empties it.
Depth == IF strategy = "direct" THEN 1 ELSE 3

Unknown == [phase |-> -1, aux |-> FALSE]

Known(s) == s.phase >= 0

Push(h, s) ==
    LET h2 == Append(h, s) IN IF Len(h2) > Depth THEN Tail(h2) ELSE h2

\* a reset branch that leaves the index register alone
QuarterResetKeepIndex ==
    /\ negate' = Zero2
    /\ tblvalue' = 0
    /\ o_val' = 0
    /\ UNCHANGED index

\* a reset branch that clears the output register only
QuarterResetOutputOnly ==
    /\ o_val' = 0
    /\ UNCHANGED <<negate, index, tblvalue>>

\* negate <= 2'b00; index <= 0; tblvalue <= 0; o_val <= 0;
QuarterReset ==
    /\ negate' = Zero2
    /\ index' = 0
    /\ tblvalue' = 0
    /\ o_val' = 0

\* { o_aux, aux } <= 0;
QuarterAuxReset ==
    IF with_aux THEN o_aux' = FALSE /\ aux' = Zero2
                ELSE UNCHANGED <<o_aux, aux>>

\* a pipeline that applies the sign one stage early
QuarterStepEarlySign(ph) ==
    /\ negate' = [i \in 0..1 |-> IF i = 0 THEN HalfFlag(ph) ELSE negate[0]]
    /\ index' = Fold(ph)
    /\ tblvalue' = quartertable[index]
    /\ o_val' = Apply(negate[0], tblvalue)

\* the i_ce branch of the quarter-wave module: Clock #1, Clock #2, Output
QuarterStep(ph) ==
    /\ negate' = [i \in 0..1 |-> IF i = 0 THEN HalfFlag(ph) ELSE negate[0]]
    /\ index' = Fold(ph)
    /\ tblvalue' = quartertable[index]
    /\ o_val' = Apply(negate[1], tblvalue)

\* an auxiliary path of two stages only
QuarterAuxStepShort(ax) ==
    IF with_aux
        THEN /\ o_aux' = aux[0]
             /\ aux' = [i \in 0..1 |-> IF i = 0 THEN ax ELSE aux[0]]
        ELSE UNCHANGED <<o_aux, aux>>

\* { o_aux, aux } <= { aux, i_aux };
QuarterAuxStep(ax) ==
    IF with_aux
        THEN /\ o_aux' = aux[1]
             /\ aux' = [i \in 0..1 |-> IF i = 0 THEN ax ELSE aux[0]]
        ELSE UNCHANGED <<o_aux, aux>>

\* a reset branch that forgets the auxiliary register
DirectResetValOnly ==
    /\ o_val' = 0
    /\ UNCHANGED o_aux

\* o_val <= 0;  o_aux <= 0;
DirectReset ==
    /\ o_val' = 0
    /\ IF with_aux THEN o_aux' = FALSE ELSE UNCHANGED o_aux

\* o_val <= tbl[i_phase];  o_aux <= i_aux;
DirectStep(ph, ax) ==
    /\ o_val' = tbl[DirectIndex(ph)]
    /\ IF with_aux THEN o_aux' = ax ELSE UNCHANGED o_aux

\* posedge i_clk of the direct module
DirectClock ==
    /\ strategy = "direct"
    /\ \E ce \in BOOLEAN, rst \in ResetInputs :
        /\ i_ce' = ce
        /\ i_reset' = rst
        /\ IF ResetTaken(rst)
              THEN /\ DirectReset
                   /\ hist' = <<>>
              ELSE IF ce
              THEN \E ph \in Phases, ax \in AuxInputs :
                        /\ DirectStep(ph, ax)
                        /\ hist' = Push(hist, [phase |-> ph, aux |-> ax])
              ELSE UNCHANGED <<o_val, o_aux, hist>>
    /\ UNCHANGED <<cfgvars, genvars, tbl, quartertable, i_areset_n,
                   negate, index, tblvalue, aux>>

\* a quarter-wave module whose auxiliary block is not gated by i_ce
QuarterClockAuxFree ==
    /\ strategy = "quarter"
    /\ \E ce \in BOOLEAN, rst \in ResetInputs :
        /\ i_ce' = ce
        /\ i_reset' = rst
        /\ IF ResetTaken(rst)
              THEN /\ QuarterReset
                   /\ QuarterAuxReset
                   /\ hist' = <<>>
              ELSE IF ce
              THEN \E ph \in Phases, ax \in AuxInputs :
                        /\ QuarterStep(ph)
                        /\ QuarterAuxStep(ax)
                        /\ hist' = Push(hist, [phase |-> ph, aux |-> ax])
              ELSE \E ax \in AuxInputs :
                        /\ QuarterAuxStep(ax)
                        /\ UNCHANGED <<negate, index, tblvalue, o_val, hist>>
    /\ UNCHANGED <<cfgvars, genvars, tbl, quartertable, i_areset_n>>

\* posedge i_clk of the quarter-wave module (both always blocks)
QuarterClock ==
    /\ strategy = "quarter"
    /\ \E ce \in BOOLEAN, rst \in ResetInputs :
        /\ i_ce' = ce
        /\ i_reset' = rst
        /\ IF ResetTaken(rst)
              THEN /\ QuarterReset
                   /\ QuarterAuxReset
                   /\ hist' = <<>>
              ELSE IF ce
              THEN \E ph \in Phases, ax \in AuxInputs :
                        /\ QuarterStep(ph)
                        /\ QuarterAuxStep(ax)
                        /\ hist' = Push(hist, [phase |-> ph, aux |-> ax])
              ELSE UNCHANGED <<negate, index, tblvalue, o_val, aux, o_aux,
                               hist>>
    /\ UNCHANGED <<cfgvars, genvars, tbl, quartertable, i_areset_n>>

\* negedge i_areset_n: every always block runs its reset branch
AresetFall ==
    /\ with_reset /\ async_reset /\ i_areset_n
    /\ i_areset_n' = FALSE
    /\ IF strategy = "direct"
          THEN DirectReset /\ UNCHANGED <<negate, index, tblvalue, aux>>
          ELSE QuarterReset /\ QuarterAuxReset
    /\ hist' = <<>>
    /\ UNCHANGED <<cfgvars, genvars, tbl, quartertable, i_ce, i_reset>>

\* posedge i_areset_n: no always block is sensitive to it
AresetRise ==
    /\ with_reset /\ async_reset /\ ~i_areset_n
    /\ i_areset_n' = TRUE
    /\ UNCHANGED <<cfgvars, genvars, tbl, quartertable, i_ce, i_reset, negate,
                   index, tblvalue, o_val, aux, o_aux, hist>>

\* The module of one generated configuration.  No register has an initial
\* value: each starts with any value, unless the asynchronous reset is held
\* low from the start.  Without a reset the text does not depend on
\* async_reset, which is then taken as false; the auxiliary path does not
\* depend on PW, and the quarter-wave module with it is taken at its smallest
\* phase width.
InitHW ==
    /\ strategy \in {"direct", "quarter"}
    /\ with_reset \in BOOLEAN /\ with_aux \in BOOLEAN
    /\ async_reset \in (IF with_reset THEN BOOLEAN ELSE {FALSE})
    /\ lgtable \in (IF strategy = "direct" THEN 1..HwMaxPW
                    ELSE IF with_aux THEN {QuarterMin + 1}
                    ELSE (QuarterMin + 1)..HwMaxPW)
    /\ ow \in 2..HwMaxOW
    /\ GenStart
    /\ tbl = (IF strategy = "direct" THEN DirectMemory ELSE <<>>)
    /\ quartertable = (IF strategy = "quarter" THEN QuarterMemory ELSE <<>>)
    /\ i_ce = FALSE /\ i_reset = FALSE
    /\ i_areset_n \in (IF with_reset /\ async_reset THEN BOOLEAN ELSE {TRUE})
    /\ hist = (IF i_areset_n THEN [i \in 1..Depth |-> Unknown] ELSE <<>>)
    /\ o_val \in (IF ~i_areset_n THEN {0} ELSE 0..(Pow2(OW) - 1))
    /\ o_aux \in (IF ~i_areset_n \/ ~with_aux THEN {FALSE} ELSE BOOLEAN)
    /\ negate \in (IF ~i_areset_n \/ strategy = "direct"
                      THEN {Zero2} ELSE [0..1 -> BOOLEAN])
    /\ index \in (IF ~i_areset_n \/ strategy = "direct"
                      THEN {0} ELSE 0..(Pow2(PW - 2) - 1))
    /\ tblvalue \in (IF ~i_areset_n \/ strategy = "direct"
                      THEN {0} ELSE 0..(Pow2(OW) - 1))
    /\ aux \in (IF ~i_areset_n \/ strategy = "direct" \/ ~with_aux
                      THEN {Zero2} ELSE [0..1 -> BOOLEAN])

NextHW ==
    \/ DirectClock
    \/ QuarterClock
    \/ AresetFall
    \/ AresetRise

SpecHW == InitHW /\ [][NextHW]_vars

\* ------------------------------------------------------------------------
\* The generation call: properties
\* ------------------------------------------------------------------------
\* how the call ended, once the checks at its head have been passed or failed
Outcome ==
    IF pc = "exit" THEN "ResourceLimitError"
    ELSE IF pc = "abort" THEN "PreconditionError"
    ELSE IF pc = "start" THEN "undecided"
    ELSE "ok"

\* C7: a Direct call succeeds for phaseWidth 23 and fails with a resource
\* limit error (non-zero exit) for every phaseWidth >= 24; a Quarter call
\* succeeds for 3..25, fails its precondition for every phaseWidth <= 2 and
\* fails with a resource limit error for every phaseWidth >= 26.
C7_PhaseWidthLimits ==
    pc # "start" =>
        /\ (strategy = "direct" /\ lgtable = 23) => Outcome = "ok"
        /\ (strategy = "direct" /\ lgtable >= 24) =>
                Outcome = "ResourceLimitError" /\ status = "EXIT_FAILURE"
        /\ (strategy = "quarter" /\ lgtable >= 3 /\ lgtable <= 25) =>
                Outcome = "ok"
        /\ (strategy = "quarter" /\ lgtable <= 2) =>
                Outcome = "PreconditionError" /\ status = "SIGABRT"
        /\ (strategy = "quarter" /\ lgtable >= 26) =>
                Outcome = "ResourceLimitError" /\ status = "EXIT_FAILURE"
        /\ pc = "done" => status = "returned"

\* a Direct call at the largest accepted width has run to its end
C7_Witness == strategy = "direct" /\ lgtable = 23 /\ pc = "done"

\* C8: whenever the phase-width validation fails, nothing has been written to
\* the output stream, no table has been allocated or filled, and the table
\* persister has not been called.
C8_CheckBeforeWrite ==
    pc \in {"exit", "abort"} =>
        out = <<>> /\ heap = <<>> /\ filled = 0 /\ hex = <<>>

\* a Direct call has failed its size check (the diagnostic went to stderr)
C8_Witness == strategy = "direct" /\ pc = "exit" /\ err # <<>>

\* C9: the table handed to the persister has exactly 2^phaseWidth computed
\* entries for Direct and 2^(phaseWidth-2) for Quarter, which is the memory
\* depth the emitted text declares, and every persisted entry was written by
\* the table loop.
C9_TableLength ==
    pc \in {"free", "done"} =>
        /\ Len(hex) = 1
        /\ hex[1].len = (IF strategy = "direct" THEN Pow2(lgtable)
                                                ELSE Pow2(lgtable - 2))
        /\ hex[1].len = DeclaredDepth
        /\ DOMAIN tbldata = 0..(hex[1].len - 1)

\* a Quarter call with a 16-phase period has persisted its table
C9_Witness == strategy = "quarter" /\ lgtable = 4 /\ pc = "done" /\ hex # <<>>

\* C10: every table entry e satisfies -maxValue <= e <= maxValue with
\* maxValue = 2^(outputWidth-1) - 1.
C10_EntryRange ==
    \A k \in DOMAIN tbldata :
        /\ tbldata[k] >= -(Pow2(ow - 1) - 1)
        /\ tbldata[k] <= Pow2(ow - 1) - 1

\* a Direct table that reaches both ends of the range has been built
C10_Witness ==
    /\ strategy = "direct" /\ pc = "done" /\ ow >= 3
    /\ \E j, k \in DOMAIN tbldata :
            tbldata[j] = Pow2(ow - 1) - 1 /\ tbldata[k] = -(Pow2(ow - 1) - 1)

\* ------------------------------------------------------------------------
\* The emitted modules: properties
\* ------------------------------------------------------------------------
\* truncate(maxValue * sin(2*pi*(k + 1/2) / 2^PW)), maxValue = 2^(OW-1) - 1
FullWave(k) ==
    Trunc((Pow2(OW - 1) - 1) * Sin(((2 * k + 1) * Len(SinTab)) \div Pow2(PW + 1)),
          SinOne)

\* the value the quarter-wave module reconstructs from a phase word
Recon(ph) == Apply(HalfFlag(ph), quartertable[Fold(ph)])

\* the sample taken n enabled edges ago (n = 1: at the latest enabled edge)
Ago(n) == hist[Len(hist) + 1 - n]

Sampled(n) == Len(hist) >= n /\ Known(Ago(n))

\* C1: for every phase index k, the value the quarter-wave module produces
\* for k is the bin-centred full-period sample
\* truncate(maxValue * sin(2*pi*(k + 1/2) / 2^PW)), the table holding these
\* samples for the first quarter.
C1_QuarterReconstruction ==
    strategy = "quarter" =>
        /\ \A j \in DOMAIN quartertable : quartertable[j] = FullWave(j)
        /\ Sampled(3) => Signed(o_val) = FullWave(Ago(3).phase)

\* the output of a phase of the fourth quadrant: index complemented, negated
C1_Witness ==
    /\ strategy = "quarter" /\ Sampled(3)
    /\ HalfFlag(Ago(3).phase) /\ QuadFlag(Ago(3).phase)
    /\ Signed(o_val) < 0

C3_AuxAlignment ==
    (strategy = "quarter" /\ with_aux) =>
        /\ Sampled(1) => aux[0] = Ago(1).aux /\ index = Fold(Ago(1).phase)
        /\ Sampled(2) => /\ aux[1] = Ago(2).aux
                         /\ tblvalue = quartertable[Fold(Ago(2).phase)]
        /\ Sampled(3) => o_aux = Ago(3).aux /\ o_val = Recon(Ago(3).phase)
        /\ hist = <<>> => ~o_aux /\ o_val = 0

\* an auxiliary bit that differs from the two after it has reached o_aux
C3_Witness ==
    /\ strategy = "quarter" /\ with_aux /\ Sampled(3)
    /\ Ago(3).aux /\ ~Ago(2).aux /\ ~Ago(1).aux
    /\ o_aux /\ o_val = Recon(Ago(3).phase) /\ o_val # 0

\* C4: after a clock edge of the direct module with i_ce asserted and no
\* reset, o_val is tbl[i_phase] for the phase sampled at that edge and o_aux
\* is the i_aux sampled at that edge.
C4_DirectLookup ==
    (strategy = "direct" /\ Sampled(1)) =>
        /\ o_val = tbl[Ago(1).phase]
        /\ with_aux => o_aux = Ago(1).aux

\* the last table entry has been looked up, with the auxiliary bit set
C4_Witness ==
    /\ strategy = "direct" /\ with_aux /\ i_ce /\ Sampled(1)
    /\ Ago(1).phase = Pow2(PW) - 1 /\ Ago(1).aux
    /\ o_val # 0 /\ o_aux

\* the reset of the configuration is active: i_reset was sampled high at the
\* latest clock edge, or i_areset_n has fallen and is low
ResetActive ==
    with_reset /\ IF async_reset THEN ~i_areset_n ELSE i_reset

AllRegistersZero ==
    /\ o_val = 0 /\ o_aux = FALSE
    /\ negate = Zero2 /\ index = 0 /\ tblvalue = 0 /\ aux = Zero2

\* C5: a clock edge with the synchronous reset asserted, a falling edge of
\* i_areset_n or a clock edge while it is low sets every register of the
\* module to zero, whatever i_ce and the inputs are.
C5_ResetClearsAll == ResetActive => AllRegistersZero

\* a synchronous reset taken at an edge that also had i_ce asserted
C5_Witness ==
    /\ strategy = "quarter" /\ with_aux /\ with_reset /\ ~async_reset
    /\ i_reset /\ i_ce /\ AllRegistersZero

\* o_val and o_aux as the samples taken since the reset determine them
OutAfterReset ==
    IF Len(hist) < 2 THEN 0
    ELSE IF Len(hist) = 2 THEN quartertable[0]
    ELSE Recon(Ago(3).phase)

AuxAfterReset == IF Len(hist) < 3 THEN FALSE ELSE Ago(3).aux

\* C6: after a reset of the quarter-wave module, o_val and o_aux are
\* determined by the samples taken after the reset alone: nothing sampled or
\* held before it reaches them.
C6_NoPreResetData ==
    (strategy = "quarter" /\ with_reset /\ \A i \in 1..Len(hist) : Known(hist[i]))
        => o_val = OutAfterReset /\ o_aux = AuxAfterReset

\* one enabled edge after a one-edge synchronous reset
C6_Witness ==
    /\ strategy = "quarter" /\ with_reset /\ ~async_reset /\ with_aux
    /\ Len(hist) = 1 /\ i_ce /\ ~i_reset /\ o_val = 0 /\ ~o_aux

\* ------------------------------------------------------------------------
\* The table: truncation
\* ------------------------------------------------------------------------
\* maxValue * sin(phase of entry k), as a multiple of 1 / SinOne
ExactProduct(k) ==
    (Pow2(ow - 1) - 1) *
        Sin(IF strategy = "direct" THEN DirectPhase(k, tbl_entries)
                                   ELSE QuarterPhase(k, tbl_entries))

\* C11: each table entry is maxValue * sin(phase) truncated toward zero, not
\* rounded: it has the sign of the product and is the largest integer of
\* that sign not beyond it.  Direct, phaseWidth 4, outputWidth 8: table[0] = 0
\* and table[4] = 127; Quarter, phaseWidth 4, outputWidth 8: table[0] = 24.
C11_TruncateTowardZero ==
    /\ \A k \in DOMAIN tbldata :
          LET p == ExactProduct(k)
              e == tbldata[k]
          IN  /\ p >= 0 => e >= 0 /\ e * SinOne <= p /\ p < (e + 1) * SinOne
              /\ p <= 0 => e <= 0 /\ e * SinOne >= p /\ p > (e - 1) * SinOne
    /\ (strategy = "direct" /\ lgtable = 4 /\ ow = 8 /\ filled > 0) =>
            tbldata[0] = 0 /\ tbldata[4] = 127
    /\ (strategy = "quarter" /\ lgtable = 4 /\ ow = 8 /\ filled > 0) =>
            tbldata[0] = 24

\* the quarter table of scenario 2 has been built: 24.77 became 24
C11_Witness ==
    /\ strategy = "quarter" /\ lgtable = 4 /\ ow = 8 /\ pc = "done"
    /\ tbldata[0] = 24
    /\ ExactProduct(0) > 24 * SinOne + SinOne \div 2

\* ------------------------------------------------------------------------
\* The emitted text: ports
\* ------------------------------------------------------------------------
\* the names listed by the first chunk of the given kind in the written text
Listed(kind) ==
    LET m == SelectSeq(out, LAMBDA c : c[1] = kind)
    IN  IF m = <<>> THEN <<>> ELSE m[1][2]

\* C12: the port list of the written module names i_clk, i_ce, i_phase and
\* o_val always, i_reset exactly for a synchronous reset, i_areset_n exactly
\* for an asynchronous reset, neither without a reset whatever the
\* asynchronous flag, and i_aux and o_aux exactly with the auxiliary path;
\* every listed port is declared once and nothing else is declared.
C12_PortListShape ==
    LET ports == Listed("module")
        decls == Listed("decl")
        P == {ports[i] : i \in DOMAIN ports}
        D == {decls[i] : i \in DOMAIN decls}
    IN  ports # <<>> =>
            /\ {"i_clk", "i_ce", "i_phase", "o_val"} \subseteq P
            /\ "i_reset" \in P <=> (with_reset /\ ~async_reset)
            /\ "i_areset_n" \in P <=> (with_reset /\ async_reset)
            /\ "i_aux" \in P <=> with_aux
            /\ "o_aux" \in P <=> with_aux
            /\ P \subseteq {"i_clk", "i_ce", "i_phase", "o_val", "i_reset",
                            "i_areset_n", "i_aux", "o_aux"}
            /\ Cardinality(P) = Len(ports)
            /\ D = P
            /\ Cardinality(D) = Len(decls)

\* a module without a reset was written although the asynchronous flag was
\* set, with the auxiliary path
C12_Witness ==
    /\ ~with_reset /\ async_reset /\ with_aux /\ pc = "done"
    /\ Len(Listed("module")) = 6
    /\ Len(Listed("decl")) = 6

\* ------------------------------------------------------------------------
\* The modules: clock enable
\* ------------------------------------------------------------------------
\* C14: at a clock edge that samples i_ce low while no reset is active, every
\* register of the module (direct: o_val, o_aux; quarter: negate, index,
\* tblvalue, o_val, aux, o_aux) keeps its value: the primary and the
\* auxiliary path stall together.
C14_ClockEnableHold ==
    [][(~i_ce' /\ ~ResetActive') =>
            UNCHANGED <<negate, index, tblvalue, o_val, aux, o_aux>>]_vars

\* a full quarter-wave pipeline, auxiliary path included, is being held
C14_Witness ==
    /\ strategy = "quarter" /\ with_aux
    /\ ~i_ce /\ ~ResetActive
    /\ Sampled(3)
    /\ o_val # 0 /\ o_aux /\ aux[0] # aux[1]

\* ------------------------------------------------------------------------
\* The quarter-wave module: fold stage
\* ------------------------------------------------------------------------
\* C15: after an enabled edge of the quarter-wave module negate[0] holds bit
\* PW-1 of the phase sampled at that edge, and index holds its low PW-2 bits
\* when bit PW-2 is 0 and their complement, 2^(PW-2) - 1 - subIndex, when
\* it is 1; in every state index lies in [0, 2^(PW-2)), so that
\* quartertable[index] addresses an entry of the table.
C15_FoldStage ==
    strategy = "quarter" =>
        LET q == Pow2(lgtable - 2)
        IN  /\ index \in 0..(q - 1)
            /\ index \in DOMAIN quartertable
            /\ Sampled(1) =>
                 LET ph == Ago(1).phase
                     sub == ph % q
                 IN  /\ negate[0] <=> (ph >= 2 * q)
                     /\ (ph \div q) % 2 = 0 => index = sub
                     /\ (ph \div q) % 2 = 1 => index = q - 1 - sub

\* a phase of the fourth quarter has been folded: the index is complemented
\* and the sign is latched
C15_Witness ==
    /\ strategy = "quarter"
    /\ Sampled(1)
    /\ Ago(1).phase = Pow2(lgtable) - 1
    /\ index = 0 /\ negate[0]

\* ------------------------------------------------------------------------
\* The quarter-wave module: output range
\* ------------------------------------------------------------------------
\* every entry of the loaded quarter table lies in [0, maxValue]
TableInRange ==
    \A j \in DOMAIN quartertable : quartertable[j] \in 0..(Pow2(OW - 1) - 1)

\* the output register holds a value computed from the table: a reset has
\* cleared the pipeline, or two enabled edges have passed since power-up
OutputLoaded == Len(hist) < Depth \/ Known(hist[2])

\* C16 (as stated): in every reachable state of the quarter-wave module the
\* signed value of o_val lies in [-maxValue, maxValue].
C16_AlwaysInRange ==
    (strategy = "quarter" /\ TableInRange) =>
        Signed(o_val) \in (1 - Pow2(OW - 1))..(Pow2(OW - 1) - 1)

\* C16: with table entries in [0, maxValue], once a reset has cleared the
\* quarter-wave pipeline or two enabled edges have passed since power-up,
\* the signed value of o_val lies in [-maxValue, maxValue] and is exactly
\* plus or minus a table entry (or the 0 of reset): the negation in OW bits
\* does not wrap and -2^(OW-1) is not produced.  Before that o_val holds its
\* power-up content, which can be any OW-bit pattern.
C16_InRangeOnceLoaded ==
    (strategy = "quarter" /\ TableInRange /\ OutputLoaded) =>
        /\ Signed(o_val) \in (1 - Pow2(OW - 1))..(Pow2(OW - 1) - 1)
        /\ o_val # Pow2(OW - 1)
        /\ \/ o_val = 0
           \/ \E j \in DOMAIN quartertable :
                 Signed(o_val) \in {quartertable[j], -quartertable[j]}

\* a negative output computed two enabled edges after power-up, no reset
C16_Witness ==
    /\ strategy = "quarter" /\ TableInRange
    /\ Len(hist) = Depth /\ ~Known(hist[1]) /\ Known(hist[2])
    /\ Signed(o_val) < 0

\* ------------------------------------------------------------------------
\* The quarter-wave module over arbitrary table contents
\* ------------------------------------------------------------------------
\* largest output width of the arbitrary tables
AnyMaxOW == 2

\* a quarter-wave module with a synchronous reset whose table file holds
\* arbitrary OW-bit words, just after a clock edge that took the reset
InitAny ==
    /\ strategy = "quarter"
    /\ with_reset = TRUE /\ with_aux = FALSE /\ async_reset = FALSE
    /\ lgtable \in (QuarterMin + 1)..HwMaxPW
    /\ ow \in 2..AnyMaxOW
    /\ GenStart
    /\ tbl = <<>>
    /\ quartertable \in [0..(Pow2(PW - 2) - 1) -> 0..(Pow2(OW) - 1)]
    /\ i_ce = FALSE /\ i_reset = TRUE /\ i_areset_n = TRUE
    /\ hist = <<>>
    /\ o_val = 0 /\ o_aux = FALSE
    /\ negate = Zero2 /\ index = 0 /\ tblvalue = 0 /\ aux = Zero2

\* posedge i_clk while the environment holds i_phase: every enabled edge
\* since the reset samples the same phase word
HeldClock ==
    /\ QuarterClock
    /\ \A i \in DOMAIN hist' : hist'[i].phase = hist'[1].phase

NextAny == HeldClock

SpecAny == InitAny /\ [][NextAny]_vars

\* C17: for any contents of the quarter table and every phase k, the output
\* f(k) the module gives for a held phase k satisfies, as OW-bit words,
\* f((k + 2^(PW-1)) mod 2^PW) = -f(k), and f(2^(PW-1) - 1 - k) = f(k) for
\* k < 2^(PW-1); as signed integers the first equation holds whenever f(k)
\* is not -2^(OW-1), the one word that is its own negation.
C17_WaveSymmetry ==
    (strategy = "quarter" /\ Len(hist) = Depth) =>
        LET k == Ago(1).phase
            N == Pow2(lgtable)
            k2 == (k + N \div 2) % N
        IN  /\ o_val = Recon(k)
            /\ Recon(k2) = (Pow2(ow) - o_val) % Pow2(ow)
            /\ Signed(o_val) # -Pow2(ow - 1) =>
                    Signed(Recon(k2)) = -Signed(o_val)
            /\ k < N \div 2 => Recon(N \div 2 - 1 - k) = o_val

\* the last phase of the first half-period is held and its output is the
\* first entry of a table no sine would give
C17_Witness ==
    /\ strategy = "quarter" /\ Len(hist) = Depth
    /\ Ago(1).phase = Pow2(lgtable - 1) - 1
    /\ o_val = quartertable[0]
    /\ o_val \notin {0, Pow2(ow - 1)}
    /\ quartertable[Pow2(lgtable - 2) - 1] = Pow2(ow - 1)
    /\ Recon(Pow2(lgtable) - 1) = Pow2(ow) - o_val

\* ------------------------------------------------------------------------
\* The quarter-wave module: the first edges after a reset
\* ------------------------------------------------------------------------
\* C18: after a reset of the quarter-wave module, o_val is 0 after the first
\* enabled edge and quartertable[0], not negated, after the second, whatever
\* phase words were presented; from the third enabled edge on o_val is the
\* value reconstructed from a phase presented after the reset; o_aux is 0
\* after each of the first two enabled edges.
C18_PostResetFlush ==
    (strategy = "quarter" /\ with_reset) =>
        /\ Len(hist) = 1 =>
              /\ o_val = 0 /\ ~o_aux
              /\ tblvalue = quartertable[0] /\ ~negate[1]
        /\ Len(hist) = 2 =>
              /\ o_val = quartertable[0] /\ ~o_aux
        /\ (Len(hist) = 3 /\ Known(hist[1])) =>
              /\ o_val = Apply(hist[1].phase >= Pow2(lgtable - 1),
                               quartertable[Fold(hist[1].phase)])
              /\ with_aux => (o_aux = hist[1].aux)

\* two enabled edges after a reset: the output is the first table entry
\* although neither phase presented since the reset reconstructs to it, and
\* o_aux is low although both auxiliary bits were high
C18_Witness ==
    /\ strategy = "quarter" /\ with_reset /\ with_aux
    /\ Len(hist) = 2
    /\ o_val = quartertable[0] /\ o_val # 0
    /\ Recon(hist[1].phase) # o_val /\ Recon(hist[2].phase) # o_val
    /\ hist[1].aux /\ hist[2].aux /\ ~o_aux

=============================================================================
